---- MODULE Spec2Model ----
(***************************************************************************)
(* Model of the code of will-wow/blog-testbed:                             *)
(*   src/src/app/log.ts    the curried logger `log` and the Ramda pipeline *)
(*                         `averageTriangle`                               *)
(*   src/unnamed/part_001  the StreamWrapper classes and `mockStream`      *)
(*                                                                         *)
(* JavaScript values are records [k, s, q, l] (kind, string, number,       *)
(* array elements).  Numbers are exact fractions <<n, d>> in lowest terms  *)
(* with d >= 0; d = 0 encodes the IEEE specials: <<1,0>> is Infinity,      *)
(* <<-1,0>> is -Infinity and <<0,0>> is NaN.  Rounding of doubles is not   *)
(* modelled: products, halves and their sums are exact in binary floating  *)
(* point for the modelled inputs, only the last division of R.mean rounds. *)
(***************************************************************************)
EXTENDS Integers, Sequences, FiniteSets, TLC

VARIABLES
    console,    \* the lines written by console.log, each a sequence of values
    loggers,    \* the closures made by log(...args): their captured `args`
    created,    \* history: the tags each closure was created with
    calls,      \* history: the applications f(data) of closures, with results
    arg,        \* the list object handed to averageTriangle
    arg0,       \* history: the contents of that list when it was built
    pc,         \* the position inside R.pipe of the running averageTriangle
    acc,        \* the value flowing through the pipe
    results,    \* the values returned by averageTriangle, in call order
    streams,    \* the heap of rxjs subjects
    wrappers,   \* the StreamWrapper instances built so far
    emitted,    \* history: per wrapper, the values pushed with w.$.next
    subs,       \* the subscribers: their stream and what they have received
    mocks       \* the object last returned by mockStream, with its argument

logVars == <<console, loggers, created, calls>>
triVars == <<arg, arg0, pc, acc, results>>
streamVars == <<streams, wrappers, emitted, subs, mocks>>
vars == <<console, loggers, created, calls, arg, arg0, pc, acc, results,
          streams, wrappers, emitted, subs, mocks>>

(***************************************************************************)
(* Bounds                                                                  *)
(***************************************************************************)
MaxTags == 2
MaxLoggers == 2
MaxCalls == 2
MaxSide == 1
MaxSides == 2
MaxLen == 2
MaxRuns == 2
MaxWrappers == 2
MaxEmits == 2
MaxSubs == 1

(***************************************************************************)
(* JavaScript values                                                       *)
(***************************************************************************)
Abs(n) == IF n < 0 THEN -n ELSE n

Sign(n) == IF n < 0 THEN -1 ELSE IF n > 0 THEN 1 ELSE 0

RECURSIVE GCD(_, _)
GCD(a, b) == IF b = 0 THEN a ELSE GCD(b, a % b)

\* the fraction n/d in lowest terms with a non-negative denominator
Norm(n, d) ==
    IF d = 0 THEN <<Sign(n), 0>>
    ELSE LET g == GCD(Abs(n), Abs(d))
         IN  <<(Sign(d) * n) \div g, Abs(d) \div g>>

Num(q) == [k |-> "num", s |-> "", q |-> q, l |-> <<>>]
Str(s) == [k |-> "str", s |-> s, q |-> <<0, 1>>, l |-> <<>>]
Arr(l) == [k |-> "arr", s |-> "", q |-> <<0, 1>>, l |-> l]
Int2Num(i) == Num(<<i, 1>>)

\* a * b, a / b and a + b on JavaScript numbers
JsMul(a, b) == Num(Norm(a.q[1] * b.q[1], a.q[2] * b.q[2]))

JsDiv(a, b) == Num(Norm(a.q[1] * b.q[2], a.q[2] * b.q[1]))

JsAdd(a, b) ==
    IF a.q[2] = 0 /\ b.q[2] = 0
    THEN IF a.q = b.q THEN a ELSE Num(<<0, 0>>)
    ELSE Num(Norm(a.q[1] * b.q[2] + b.q[1] * a.q[2], a.q[2] * b.q[2]))

(***************************************************************************)
(* Ramda, as used by log.ts                                                *)
(***************************************************************************)
R_multiply(a, b) == JsMul(a, b)

R_divide(a, b) == JsDiv(a, b)

R_add(a, b) == JsAdd(a, b)

\* the call f(a, b) of a binary Ramda function handed over as a value
R_call2(f, a, b) ==
    CASE f = "R.multiply" -> R_multiply(a, b)
      [] f = "R.divide" -> R_divide(a, b)
      [] f = "R.add" -> R_add(a, b)

\* R.flip(f)(a)(b): f with its first two arguments exchanged
R_flip(f, a, b) == R_call2(f, b, a)

\* R.reduce(f, init, list): left fold over the elements of the sequence
R_reduce(f, init, list) ==
    LET F[i \in 0..Len(list)] ==
            IF i = 0 THEN init ELSE R_call2(f, F[i - 1], list[i])
    IN  F[Len(list)]

R_sum(list) == R_reduce("R.add", Int2Num(0), list.l)

R_mean_noDivide(list) == R_sum(list)

R_mean(list) == R_divide(R_sum(list), Int2Num(Len(list.l)))

(***************************************************************************)
(* log.ts                                                                  *)
(***************************************************************************)
\* Array.prototype.concat with one array argument: a new array
concat(a, b) == a \o b

\* log(...args): the closure, which captures the rest-parameter array
log(args) == [args |-> args]

\* faulty variants of the closure body: no return value, concat(data) without
\* the wrapping array, and push onto the captured array
logBody_noReturn(args, data) ==
    [line |-> concat(args, <<data>>), ret |-> Str("undefined"), args |-> args]

logBody_spread(args, data) ==
    [line |-> concat(args, IF data.k = "arr" THEN data.l ELSE <<data>>),
     ret |-> data, args |-> args]

logBody_push(args, data) ==
    [line |-> Append(args, data), ret |-> data, args |-> Append(args, data)]

\* the closure body <T>(data: T): T => {...}: the line handed to console.log,
\* the value returned, and the captured array after the call
logBody(args, data) ==
    [line |-> concat(args, <<data>>), ret |-> data, args |-> args]

triangles ==
    Arr(<< Arr(<<Int2Num(2), Int2Num(4)>>),
           Arr(<<Int2Num(3), Int2Num(3)>>),
           Arr(<<Int2Num(4), Int2Num(8)>>) >>)

multiplySides(entry) == R_reduce("R.multiply", Int2Num(1), entry.l)

\* the definition commented out at log.ts:12
divideByTwo_unflipped(x) == R_divide(Int2Num(2), x)

divideByTwo(x) == R_flip("R.divide", Int2Num(2), x)

\* the call f(x) of a function of log.ts handed to R.map
call1(f, x) ==
    CASE f = "multiplySides" -> multiplySides(x)
      [] f = "divideByTwo" -> divideByTwo(x)

\* R.map(f, list): a fresh array, the argument is not written
R_map(f, list) == Arr([i \in 1..Len(list.l) |-> call1(f, list.l[i])])

(***************************************************************************)
(* Input sets                                                              *)
(***************************************************************************)
SeqsUpTo(S, n) == UNION {[1..k -> S] : k \in 0..n}

TagVals == {Str("a"), Str("b")}
TagLists == SeqsUpTo(TagVals, MaxTags)
DataVals == {Int2Num(1), Arr(<<Int2Num(1), Int2Num(2)>>)}

Sides == {Int2Num(i) : i \in 0..MaxSide}
Entries == {Arr(e) : e \in SeqsUpTo(Sides, MaxSides)}
Inputs == {Arr(t) : t \in SeqsUpTo(Entries, MaxLen)} \cup {triangles}

(***************************************************************************)
(* State after the modules are loaded                                      *)
(***************************************************************************)
\* the two closures built while averageTriangle is defined
MultLogger == 1
DivLogger == 2

InitLog ==
    /\ console = <<>>
    /\ loggers = <<log(<<Str("mult")>>), log(<<Str("div")>>)>>
    /\ created = <<<<Str("mult")>>, <<Str("div")>>>>
    /\ calls = <<>>

InitTriangle(list) ==
    /\ arg = list
    /\ arg0 = list
    /\ pc = "idle"
    /\ acc = Arr(<<>>)
    /\ results = <<>>

InitStreams ==
    /\ streams = <<>>
    /\ wrappers = <<>>
    /\ emitted = <<>>
    /\ subs = <<>>
    /\ mocks = <<>>

Init == InitLog /\ InitTriangle(triangles) /\ InitStreams

InitInputs == InitLog /\ (\E list \in Inputs : InitTriangle(list)) /\ InitStreams

(***************************************************************************)
(* Operations of log.ts                                                    *)
(***************************************************************************)
\* log(...tags), not applied
CreateLogger(tags) ==
    /\ Len(loggers) < DivLogger + MaxLoggers
    /\ loggers' = Append(loggers, log(tags))
    /\ created' = Append(created, tags)
    /\ UNCHANGED <<console, calls, triVars, streamVars>>

\* the effect of f(data) for the closure f
Apply(f, data) ==
    LET r == logBody(loggers[f].args, data)
    IN  /\ console' = Append(console, r.line)
        /\ loggers' = [loggers EXCEPT ![f].args = r.args]
        /\ calls' = Append(calls, [f |-> f, data |-> data, ret |-> r.ret])
        /\ UNCHANGED created

ApplyLogger(f, data) ==
    /\ Len(calls) < MaxCalls
    /\ Apply(f, data)
    /\ UNCHANGED <<triVars, streamVars>>

\* averageTriangle(arg): the call enters the pipe with the list itself
CallAverageTriangle ==
    /\ pc = "idle"
    /\ Len(results) < MaxRuns
    /\ pc' = "mapMult"
    /\ acc' = arg
    /\ UNCHANGED <<arg, arg0, results, logVars, streamVars>>

\* a map that writes the products back into the list it was given
MapMultiplySides_inPlace ==
    /\ pc = "mapMult"
    /\ acc' = R_map("multiplySides", acc)
    /\ arg' = acc'
    /\ pc' = "logMult"
    /\ UNCHANGED <<arg0, results, logVars, streamVars>>

\* R.map(multiplySides)
MapMultiplySides ==
    /\ pc = "mapMult"
    /\ acc' = R_map("multiplySides", acc)
    /\ pc' = "logMult"
    /\ UNCHANGED <<arg, arg0, results, logVars, streamVars>>

\* the first tap carrying the tag of the second
LogMult_tagDiv ==
    /\ pc = "logMult"
    /\ Apply(DivLogger, acc)
    /\ acc' = calls'[Len(calls')].ret
    /\ pc' = "mapDiv"
    /\ UNCHANGED <<arg, arg0, results, streamVars>>

\* log('mult')
LogMult ==
    /\ pc = "logMult"
    /\ Apply(MultLogger, acc)
    /\ acc' = calls'[Len(calls')].ret
    /\ pc' = "mapDiv"
    /\ UNCHANGED <<arg, arg0, results, streamVars>>

\* R.map(divideByTwo)
MapDivideByTwo ==
    /\ pc = "mapDiv"
    /\ acc' = R_map("divideByTwo", acc)
    /\ pc' = "logDiv"
    /\ UNCHANGED <<arg, arg0, results, logVars, streamVars>>

\* log('div')
LogDiv ==
    /\ pc = "logDiv"
    /\ Apply(DivLogger, acc)
    /\ acc' = calls'[Len(calls')].ret
    /\ pc' = "mean"
    /\ UNCHANGED <<arg, arg0, results, streamVars>>

\* R.mean, whose value the pipe returns
Mean ==
    /\ pc = "mean"
    /\ results' = Append(results, R_mean(acc))
    /\ pc' = "idle"
    /\ UNCHANGED <<arg, arg0, acc, logVars, streamVars>>

\* the closures a caller holds: the two of the pipe are not exported
ClientLoggers == {f \in DOMAIN loggers : f > DivLogger}

NextLog ==
    \/ \E tags \in TagLists : CreateLogger(tags)
    \/ \E f \in ClientLoggers, data \in DataVals : ApplyLogger(f, data)

NextTriangle ==
    \/ CallAverageTriangle
    \/ MapMultiplySides
    \/ LogMult
    \/ MapDivideByTwo
    \/ LogDiv
    \/ Mean

SpecLog == Init /\ [][NextLog]_vars

SpecTriangle == InitInputs /\ [][NextTriangle]_vars

(***************************************************************************)
(* rxjs subjects, as used by the StreamWrapper classes                     *)
(***************************************************************************)
StreamVals == {1, 2}

\* the last n elements of a buffer
Trim(buf, n) ==
    IF Len(buf) <= n THEN buf ELSE SubSeq(buf, Len(buf) - n + 1, Len(buf))

\* new Subject(): nothing is kept for later subscribers
Subject_new ==
    [kind |-> "Subject", bufferSize |-> 0, buffer |-> <<>>, observers |-> <<>>]

\* new BehaviorSubject(value): the current value is kept, starting with `value`
BehaviorSubject_new(value) ==
    [kind |-> "BehaviorSubject", bufferSize |-> 1, buffer |-> <<value>>,
     observers |-> <<>>]

\* new ReplaySubject(bufferSize): the last bufferSize values are kept
ReplaySubject_new(bufferSize) ==
    [kind |-> "ReplaySubject", bufferSize |-> bufferSize, buffer |-> <<>>,
     observers |-> <<>>]

\* subject.next(value): the buffer after the call
Subject_next(subject, value) ==
    [subject EXCEPT !.buffer = Trim(Append(@, value), subject.bufferSize)]

(***************************************************************************)
(* The StreamWrapper classes and mockStream                                *)
(***************************************************************************)
SubjectWrapper_ctor == Subject_new

BehaviorSubjectWrapper_ctor(value) == BehaviorSubject_new(value)

ReplaySubjectWrapper_ctor_two == ReplaySubject_new(2)

ReplaySubjectWrapper_ctor == ReplaySubject_new(1)

mockStream_typed(S) == [name \in {"$", "_type"} |-> S]

\* { $ }: an object literal with the one property `$`
mockStream(S) == [name \in {"$"} |-> S]

\* `new C(...)`: the constructor stores a fresh subject in this.$
NewWrapper(cls, subject) ==
    /\ Len(wrappers) < MaxWrappers
    /\ streams' = Append(streams, subject)
    /\ wrappers' = Append(wrappers, [cls |-> cls, S |-> Len(streams) + 1])
    /\ emitted' = Append(emitted, <<>>)
    /\ UNCHANGED <<subs, mocks, logVars, triVars>>

NewSubjectWrapper == NewWrapper("SubjectWrapper", SubjectWrapper_ctor)

NewBehaviorSubjectWrapper(value) ==
    NewWrapper("BehaviorSubjectWrapper", BehaviorSubjectWrapper_ctor(value))

NewReplaySubjectWrapper ==
    NewWrapper("ReplaySubjectWrapper", ReplaySubjectWrapper_ctor)

RECURSIVE SumLen(_)
SumLen(ss) == IF ss = <<>> THEN 0 ELSE Len(Head(ss)) + SumLen(Tail(ss))

InSeq(x, xs) == \E i \in DOMAIN xs : xs[i] = x

\* w.$.next(value): buffered, and delivered to the observers of the subject
Emit(w, value) ==
    LET S == wrappers[w].S
    IN  /\ SumLen(emitted) < MaxEmits
        /\ streams' = [streams EXCEPT ![S] = Subject_next(@, value)]
        /\ subs' = [i \in DOMAIN subs |->
                       IF InSeq(i, streams[S].observers)
                       THEN [subs[i] EXCEPT !.got = Append(@, value)]
                       ELSE subs[i]]
        /\ emitted' = [emitted EXCEPT ![w] = Append(@, value)]
        /\ UNCHANGED <<wrappers, mocks, logVars, triVars>>

\* w.$.subscribe(observer): the buffer is replayed to the new observer
Subscribe(w) ==
    LET S == wrappers[w].S
    IN  /\ Len(subs) < MaxSubs
        /\ subs' = Append(subs, [w |-> w, got |-> streams[S].buffer,
                                 replayed |-> streams[S].buffer,
                                 seen |-> emitted[w]])
        /\ streams' = [streams EXCEPT ![S].observers = Append(@, Len(subs) + 1)]
        /\ UNCHANGED <<wrappers, emitted, mocks, logVars, triVars>>

\* mockStream(streams[S])
MockStream(S) ==
    /\ mocks' = <<[arg |-> S, obj |-> mockStream(S)]>>
    /\ UNCHANGED <<streams, wrappers, emitted, subs, logVars, triVars>>

NextStreams ==
    \/ NewSubjectWrapper
    \/ \E value \in StreamVals : NewBehaviorSubjectWrapper(value)
    \/ NewReplaySubjectWrapper
    \/ \E w \in DOMAIN wrappers, value \in StreamVals : Emit(w, value)
    \/ \E w \in DOMAIN wrappers : Subscribe(w)
    \/ \E S \in DOMAIN streams : MockStream(S)

SpecStreams == Init /\ [][NextStreams]_vars

(***************************************************************************)
(* Properties                                                              *)
(***************************************************************************)
\* the product of the numbers of an entry, taken from the right
RECURSIVE Product(_)
Product(e) == IF e = <<>> THEN 1 ELSE e[1].q[1] * Product(Tail(e))

SidePairs(list) == \A i \in DOMAIN list.l : Len(list.l[i].l) = 2

\* the sum of w * h over the first n side-pairs of the list
RECURSIVE SumWH(_, _)
SumWH(list, n) ==
    IF n = 0 THEN 0
    ELSE list.l[n].l[1].q[1] * list.l[n].l[2].q[1] + SumWH(list, n - 1)

\* C1: for a non-empty list of side-pairs averageTriangle returns the mean of
\* the areas w*h/2, that is result * 2 * (number of pairs) = sum of w*h; for
\* [[2,4],[3,3],[4,8]] the result is 49/6, within 0.0005 of 8.167.
C1_MeanOfAreas ==
    \A k \in DOMAIN results :
        (Len(arg0.l) > 0 /\ SidePairs(arg0)) =>
            LET r == results[k].q
            IN  /\ results[k].k = "num"
                /\ r[2] > 0
                /\ r[1] * 2 * Len(arg0.l) = SumWH(arg0, Len(arg0.l)) * r[2]
                /\ arg0 = triangles =>
                       /\ r = <<49, 6>>
                       /\ Abs(r[1] * 1000 - 8167 * r[2]) * 10000 < 5 * 1000 * r[2]

C1_Witness ==
    /\ arg0 = triangles
    /\ Len(results) >= 1
    /\ results[1] = Num(<<49, 6>>)

\* C2: whatever the tags, also with none, log(...tags)(d) returns d itself.
C2_ReturnsData ==
    \A i \in DOMAIN calls : calls[i].ret = calls[i].data

C2_Witness ==
    /\ \E i \in DOMAIN calls :
           created[calls[i].f] = <<>> /\ calls[i].ret = Int2Num(1)
    /\ \E i \in DOMAIN calls :
           Len(created[calls[i].f]) = 2 /\ calls[i].ret.k = "arr"

\* C3: every application log(...tags)(d) writes exactly one console line, the
\* tags in the order given followed by d as the last element (only d when
\* there are no tags); building a logger without applying it writes nothing.
C3_OneLinePerCall ==
    /\ Len(console) = Len(calls)
    /\ \A i \in DOMAIN calls :
           console[i] = created[calls[i].f] \o <<calls[i].data>>

C3_Witness ==
    /\ Len(loggers) = 4
    /\ created[3] = <<Str("a"), Str("b")>>
    /\ created[4] = <<>>
    /\ Len(console) = 2
    /\ console[1] = <<Str("a"), Str("b"), Arr(<<Int2Num(1), Int2Num(2)>>)>>
    /\ console[2] = <<Int2Num(1)>>

\* C4: mockStream(s) returns an object whose only field is `$`, holding s
\* itself; the call is possible for every stream and changes no stream.
C4_MockShape ==
    /\ [](\A S \in DOMAIN streams : ENABLED MockStream(S))
    /\ [][mocks' # mocks =>
             LET m == mocks'[1]
             IN  /\ DOMAIN m.obj = {"$"}
                 /\ m.obj["$"] = m.arg
                 /\ streams' = streams
                 /\ wrappers' = wrappers
                 /\ subs' = subs]_vars

C4_Witness ==
    /\ mocks # <<>>
    /\ mocks[1].obj["$"] = mocks[1].arg
    /\ streams[mocks[1].arg].kind = "ReplaySubject"
    /\ streams[mocks[1].arg].buffer = <<2>>
    /\ streams[mocks[1].arg].observers # <<>>

\* C5: inside averageTriangle the area of an entry is the product of its
\* numbers (starting from 1) divided by 2, not 2 divided by the product.
C5_ProductOverTwo ==
    /\ pc \in {"logMult", "mapDiv"} =>
           /\ Len(acc.l) = Len(arg0.l)
           /\ \A i \in DOMAIN acc.l :
                  acc.l[i] = Int2Num(Product(arg0.l[i].l))
    /\ pc \in {"logDiv", "mean"} =>
           /\ Len(acc.l) = Len(arg0.l)
           /\ \A i \in DOMAIN acc.l :
                  /\ acc.l[i].q[2] > 0
                  /\ acc.l[i].q[1] * 2 = Product(arg0.l[i].l) * acc.l[i].q[2]

C5_Witness ==
    /\ pc = "logDiv"
    /\ arg0 = triangles
    /\ acc = Arr(<<Num(<<4, 1>>), Num(<<9, 2>>), Num(<<16, 1>>)>>)

\* C6: a logger keeps no state between calls: a step never changes the tags a
\* closure captured nor a line already written, and the line a call writes
\* has the tags the closure was built with followed by that call's data only.
C6_NoSharedState ==
    [][/\ \A f \in DOMAIN loggers : loggers'[f] = loggers[f]
       /\ \A i \in DOMAIN console : console'[i] = console[i]
       /\ Len(calls') = Len(calls) + 1 =>
              LET c == calls'[Len(calls')]
                  line == console'[Len(console')]
              IN  /\ loggers[c.f].args = created[c.f]
                  /\ Len(line) = Len(created[c.f]) + 1
                  /\ line[Len(line)] = c.data]_vars

C6_Witness ==
    /\ Len(loggers) = 4
    /\ Len(calls) = 2
    /\ calls[1].f = calls[2].f
    /\ calls[1].data # calls[2].data
    /\ Len(created[calls[1].f]) = 2
    /\ Len(console[2]) = Len(console[1])

\* the console lines a call of averageTriangle has written at each position
Written(p) ==
    IF p \in {"mapDiv", "logDiv"} THEN 1 ELSE IF p = "mean" THEN 2 ELSE 0

\* C7: every call of averageTriangle writes exactly two console lines before
\* it returns: first ['mult', the products], then ['div', the areas], each
\* list as long as the input and in its order.
C7_TwoLinesInOrder ==
    /\ Len(console) = 2 * Len(results) + Written(pc)
    /\ \A k \in 1..(Len(console) \div 2) :
           /\ console[2 * k - 1] =
                  <<Str("mult"),
                    Arr([i \in DOMAIN arg0.l |-> Int2Num(Product(arg0.l[i].l))])>>
           /\ console[2 * k] =
                  <<Str("div"),
                    Arr([i \in DOMAIN arg0.l |->
                            Num(Norm(Product(arg0.l[i].l), 2))])>>

C7_Witness ==
    /\ Len(results) = 2
    /\ Len(console) = 4
    /\ console[3] = <<Str("mult"), Arr(<<Int2Num(8), Int2Num(9), Int2Num(32)>>)>>
    /\ console[4] = <<Str("div"), Arr(<<Num(<<4, 1>>), Num(<<9, 2>>), Num(<<16, 1>>)>>)>>

\* C8: averageTriangle leaves the list it is given as it was, so a second
\* call on the same list returns the same result.
C8_ArgumentUnchanged ==
    /\ arg = arg0
    /\ \A j, k \in DOMAIN results : results[j] = results[k]

C8_Witness ==
    /\ Len(results) = 2
    /\ arg = triangles
    /\ results[2] = Num(<<49, 6>>)

\* C9: a subscriber of a ReplaySubjectWrapper's stream first receives only
\* the last value emitted before it subscribed (nothing when there was none),
\* then the later values of that wrapper, and no two wrappers share a stream.
C9_ReplayOne ==
    /\ \A i \in DOMAIN subs :
           wrappers[subs[i].w].cls = "ReplaySubjectWrapper" =>
               LET before == subs[i].seen
                   all == emitted[subs[i].w]
               IN  /\ subs[i].replayed =
                          IF before = <<>> THEN <<>>
                          ELSE <<before[Len(before)]>>
                   /\ subs[i].got =
                          subs[i].replayed \o SubSeq(all, Len(before) + 1, Len(all))
    /\ \A v, w \in DOMAIN wrappers :
           (wrappers[v].cls = "ReplaySubjectWrapper" /\ v # w) =>
               wrappers[v].S # wrappers[w].S

C9_Witness ==
    /\ Len(wrappers) = 2
    /\ wrappers[1].cls = "ReplaySubjectWrapper"
    /\ wrappers[2].cls = "ReplaySubjectWrapper"
    /\ \E i \in DOMAIN subs :
           /\ subs[i].w = 1
           /\ subs[i].seen = <<1, 2>>
           /\ subs[i].replayed = <<2>>
           /\ subs[i].got = <<2>>

====
